---- MODULE Spec2Model ----
(***************************************************************************)
(* Tile-Simulator: the ColorEditor component (path selection, colour       *)
(* propagation, colour removal, rotation forwarding) and the TileSelection *)
(* component (default rotations, applyColorsToSvg, paging).                *)
(*                                                                         *)
(* Strings are sequences of one-character strings, so that split("-"),     *)
(* includes(), substring() and template literals are computed, not assumed.*)
(***************************************************************************)
EXTENDS Integers, Sequences, FiniteSets, TLC

(* ------------------------------------------------------------------ *)
(* JavaScript values                                                   *)
(* ------------------------------------------------------------------ *)

\* JS undefined / null: one-element tuples no character string can equal.
Undefined == <<"undefined">>
Null == <<"null">>

\* `a || b` on string-or-undefined operands: the empty string, undefined and
\* null are falsy.
Truthy(v) == v # Undefined /\ v # Null /\ v # <<>>

Or2(a, b) == IF Truthy(a) THEN a ELSE b

\* String.prototype.split("-"): the pieces between hyphens, empty pieces kept.
RECURSIVE SplitFrom(_, _, _)
SplitFrom(s, i, cur) ==
  IF i > Len(s) THEN <<cur>>
  ELSE IF s[i] = "-" THEN <<cur>> \o SplitFrom(s, i + 1, <<>>)
  ELSE SplitFrom(s, i + 1, Append(cur, s[i]))

Split(s) == SplitFrom(s, 1, <<>>)

\* String.prototype.includes
Includes(hay, needle) ==
  \E i \in 0..(Len(hay) - Len(needle)) :
    SubSeq(hay, i + 1, i + Len(needle)) = needle

\* String.prototype.substring(0, n)
Substring0(s, n) == SubSeq(s, 1, IF Len(s) < n THEN Len(s) ELSE n)

(* ------------------------------------------------------------------ *)
(* Data: colours, path identifiers, fragment sets                      *)
(* ------------------------------------------------------------------ *)

\* The first entries of colorPalette, in source order.
colorPalette ==
  << <<"#","f","5","f","5","f","0">>,
     <<"#","e","6","e","6","d","8">>,
     <<"#","d","8","d","8","c","0">> >>

\* How many palette entries the model offers to click.
NumPalette == 1

Red == <<"r","e","d">>

\* Path identifiers authored with parallel naming ("a-c" and "b-a-c" share
\* the base identifier "c") and an identifier without a hyphen.
IdAC == <<"a","-","c">>
IdBAC == <<"b","-","a","-","c">>
IdE == <<"e">>

PathIds == {IdAC, IdBAC, IdE}

Path(id, fill) == [id |-> id, fill |-> fill]

\* SvgData[] of tile "t1": two fragments with parallel identifiers.
SvgArrayT1 ==
  << [paths |-> << Path(IdAC, colorPalette[1]), Path(IdE, Undefined) >>],
     [paths |-> << Path(IdBAC, colorPalette[1]) >>] >>

\* SvgData[] of tile "t2": the same identifier in both fragments; its first
\* occurrence has no authored fill; no path with base identifier "c".
SvgArrayT2 ==
  << [paths |-> << Path(IdE, Undefined) >>],
     [paths |-> << Path(IdE, colorPalette[1]) >>] >>

TileIds == {"t1", "t2"}

SvgArrayOf(t) == IF t = "t1" THEN SvgArrayT1 ELSE SvgArrayT2

(* ------------------------------------------------------------------ *)
(* State                                                               *)
(* ------------------------------------------------------------------ *)

VARIABLES
  svgArray,        \* ColorEditor prop: the active fragment set (SvgData[])
  tileId,          \* ColorEditor prop: the active tile
  showBorders,     \* ColorEditor prop, owned by the parent
  selectedColors,  \* ColorEditor state: the used-colours collection (ColorData[])
  selectedPathId,  \* ColorEditor state: Null or a path identifier
  pathColors,      \* ColorEditor state: Record<string, string>
  tileRotations,   \* parent state handed to TileSelection: Record<string, number[]>
  calls,           \* the consumer callbacks invoked by the last handler, in order
  last,            \* the last handler that ran, with its argument
  currentPage,     \* TileSelection state
  isSmallScreen,   \* TileSelection: useMediaQuery("(max-width: 767px)")
  isMediumScreen,  \* TileSelection: useMediaQuery("(min-width: 768px) and (max-width: 1023px)")
  svgString,       \* applyColorsToSvg: the markup argument
  colors,          \* applyColorsToSvg: the assignment argument, keys in Object.keys order
  returned         \* applyColorsToSvg: <<>> before the call, then << the returned markup >>

editorVars == << svgArray, tileId, showBorders, selectedColors, selectedPathId,
                 pathColors, calls >>
tileVars == << currentPage, isSmallScreen, isMediumScreen >>
applyVars == << svgString, colors, returned >>

vars == << editorVars, tileRotations, last, tileVars, applyVars >>

\* obj[k] on a JS object: undefined when the key is absent.
Get(obj, k) == IF k \in DOMAIN obj THEN obj[k] ELSE Undefined

\* { ...obj, [k]: v }
Spread(obj, k, v) == [x \in (DOMAIN obj) \cup {k} |-> IF x = k THEN v ELSE obj[x]]

\* Array.prototype.find with the predicate "element.id === pathId": the
\* position of the first match, 0 when find returns undefined.
RECURSIVE FindPathFrom(_, _, _)
FindPathFrom(paths, pathId, i) ==
  IF i > Len(paths) THEN 0
  ELSE IF paths[i].id = pathId THEN i
  ELSE FindPathFrom(paths, pathId, i + 1)

FindPath(paths, pathId) == FindPathFrom(paths, pathId, 1)

\* svgArray.find((svg) => svg.paths.find((p) => p.id === pathId)): the
\* position of the first fragment holding such a path, 0 when undefined.
RECURSIVE FindSvgFrom(_, _, _)
FindSvgFrom(arr, pathId, i) ==
  IF i > Len(arr) THEN 0
  ELSE IF FindPath(arr[i].paths, pathId) # 0 THEN i
  ELSE FindSvgFrom(arr, pathId, i + 1)

FindSvg(arr, pathId) == FindSvgFrom(arr, pathId, 1)

\* svgArray.find(...)?.paths.find(...)?.fill
AuthoredFill(arr, pathId) ==
  LET svg == FindSvg(arr, pathId) IN
  IF svg = 0 THEN Undefined
  ELSE LET p == FindPath(arr[svg].paths, pathId) IN
       IF p = 0 THEN Undefined ELSE arr[svg].paths[p].fill

\* Mutant of SeedColor: the previous value is not consulted.
SeedColorIgnoresPrev(prev, arr, pathId) == Or2(AuthoredFill(arr, pathId), Red)

\* Mutant of SeedColor: the authored fill is consulted before the previous value.
SeedColorFillFirst(prev, arr, pathId) ==
  Or2(Or2(AuthoredFill(arr, pathId), Get(prev, pathId)), Red)

\* The value handlePathSelect stores under pathId.
SeedColor(prev, arr, pathId) ==
  Or2(Or2(Get(prev, pathId), AuthoredFill(arr, pathId)), Red)

\* Mutant of BaseIdentifier: parts[0].
BaseIdentifierFirst(id) == Split(id)[1]

\* parts[parts.length - 1] of id.split("-")
BaseIdentifier(id) == LET parts == Split(id) IN parts[Len(parts)]

\* svg.paths.filter(base identifier matches).map((path) => path.id)
RECURSIVE FilterIds(_, _, _)
FilterIds(paths, base, i) ==
  IF i > Len(paths) THEN <<>>
  ELSE (IF BaseIdentifier(paths[i].id) = base THEN <<paths[i].id>> ELSE <<>>)
       \o FilterIds(paths, base, i + 1)

\* svgArray.flatMap(...)
RECURSIVE RelatedFrom(_, _, _)
RelatedFrom(arr, base, i) ==
  IF i > Len(arr) THEN <<>>
  ELSE FilterIds(arr[i].paths, base, 1) \o RelatedFrom(arr, base, i + 1)

RelatedPaths(arr, selected) == RelatedFrom(arr, BaseIdentifier(selected), 1)

\* `${pathId}-${color}` and `Color ${color}`
NewColor(pathId, color) ==
  [id |-> pathId \o <<"-">> \o color,
   color |-> color,
   name |-> <<"C","o","l","o","r"," ">> \o color]

\* Mutant of SomeColor: the colour is never found.
SomeColorNever(cols, color) == FALSE

\* selectedColors.some((c) => c.color === color)
SomeColor(cols, color) == \E i \in 1..Len(cols) : cols[i].color = color

\* The body of relatedPaths.forEach: the queued state updaters applied in
\* order, the callback invoked in order.  `closure` is the selectedColors
\* value captured by the handler when it was created (the last render).
RECURSIVE ForEachRelated(_, _, _, _, _)
ForEachRelated(related, i, color, closure, acc) ==
  IF i > Len(related) THEN acc
  ELSE LET pathId == related[i]
           newColor == NewColor(pathId, color)
       IN ForEachRelated(related, i + 1, color, closure,
            [pc |-> Spread(acc.pc, pathId, color),
             sc |-> IF ~SomeColor(closure, color)
                    THEN Append(acc.sc, newColor) ELSE acc.sc,
             cb |-> Append(acc.cb, [fn |-> "onColorSelect",
                                    pathId |-> pathId, color |-> newColor])])

\* Mutant of RemoveEntries: the loop stops after the first deleted entry.
RemoveEntriesFirst(pc, colorToRemove) ==
  LET hit == {x \in DOMAIN pc : pc[x] = colorToRemove} IN
  IF hit = {} THEN pc
  ELSE LET gone == CHOOSE x \in hit : TRUE
       IN [k \in (DOMAIN pc) \ {gone} |-> pc[k]]

\* Object.keys(updatedPathColors).forEach(delete entries equal to colorToRemove)
RemoveEntries(pc, colorToRemove) ==
  [k \in {x \in DOMAIN pc : pc[x] # colorToRemove} |-> pc[k]]

\* prev.filter((c) => c.color !== colorToRemove)
FilterColors(cols, colorToRemove) == SelectSeq(cols, LAMBDA c : c.color # colorToRemove)

(* ------------------------------------------------------------------ *)
(* Rotation                                                            *)
(* ------------------------------------------------------------------ *)

\* The switch on the fragment index in the first rendered row.
defaultRotation(index) ==
  CASE index = 0 -> 0
    [] index = 1 -> 90
    [] index = 2 -> 270
    [] index = 3 -> 180
    [] OTHER -> 0

\* Mutant of defaultRotationSecondRow: cases 2 and 3 exchanged.
defaultRotationSwapped(index) ==
  CASE index = 0 -> 0
    [] index = 1 -> 90
    [] index = 2 -> 180
    [] index = 3 -> 270
    [] OTHER -> 0

\* The copy of that switch in the second rendered row.
defaultRotationSecondRow(index) ==
  CASE index = 0 -> 0
    [] index = 1 -> 90
    [] index = 2 -> 270
    [] index = 3 -> 180
    [] OTHER -> 0

\* The angle the rotation control asks for.
RotationAngles == {90}

\* How many tiles the parent holds rotation overrides for.
MaxRotatedTiles == 1

\* The parent's onRotate: records newRotation for (tileId, index).  A tile
\* without an entry gets a new array, either holding only that index or
\* started from the default pattern of its `n` fragments.
OnRotate(rots, t, n, index, newRotation, fromDefaults) ==
  LET old == IF t \in DOMAIN rots THEN rots[t]
             ELSE IF fromDefaults THEN [i \in 0..(n - 1) |-> defaultRotation(i)]
             ELSE [i \in {} |-> 0]
  IN Spread(rots, t, Spread(old, index, newRotation))

CanRotate(t) ==
  t \in DOMAIN tileRotations \/ Cardinality(DOMAIN tileRotations) < MaxRotatedTiles

(* ------------------------------------------------------------------ *)
(* ColorEditor handlers                                                *)
(* ------------------------------------------------------------------ *)

Palette == {colorPalette[i] : i \in 1..NumPalette}

\* Every colour a swatch can carry: the palette, the authored fills, "red".
Colors == Palette \cup {Red}

handlePathSelect(pathId) ==
  /\ selectedPathId' = pathId
  /\ pathColors' = Spread(pathColors, pathId, SeedColor(pathColors, svgArray, pathId))
  /\ calls' = <<>>
  /\ last' = [op |-> "handlePathSelect", arg |-> pathId]
  /\ UNCHANGED << svgArray, tileId, showBorders, selectedColors, tileRotations,
                  tileVars, applyVars >>

\* Mutant of ColorSelectResult: the guard on a missing selection is gone and
\* the filter lets every path through when there is no base identifier.
RECURSIVE AllIdsFrom(_, _)
AllIdsFrom(arr, f) ==
  IF f > Len(arr) THEN <<>>
  ELSE [i \in 1..Len(arr[f].paths) |-> arr[f].paths[i].id] \o AllIdsFrom(arr, f + 1)

ColorSelectUnguarded(selected, arr, color, cols, pc) ==
  ForEachRelated(IF Truthy(selected) THEN RelatedPaths(arr, selected)
                 ELSE AllIdsFrom(arr, 1),
                 1, color, cols, [pc |-> pc, sc |-> cols, cb |-> <<>>])

\* The body of handleColorSelect: the values of pathColors and
\* selectedColors after the queued updaters ran, and the callbacks made.
ColorSelectResult(selected, arr, color, cols, pc) ==
  IF ~Truthy(selected)
  THEN [pc |-> pc, sc |-> cols, cb |-> <<>>]
  ELSE ForEachRelated(RelatedPaths(arr, selected), 1, color, cols,
                      [pc |-> pc, sc |-> cols, cb |-> <<>>])

handleColorSelect(color) ==
  LET r == ColorSelectResult(selectedPathId, svgArray, color, selectedColors, pathColors)
  IN /\ pathColors' = r.pc
     /\ selectedColors' = r.sc
     /\ calls' = r.cb
     /\ last' = [op |-> "handleColorSelect", arg |-> color]
     /\ UNCHANGED << svgArray, tileId, showBorders, selectedPathId, tileRotations,
                     tileVars, applyVars >>

\* Mutant of handleRemoveColor: removing the colour of the selected path
\* also clears the selection.
handleRemoveColorDeselects(colorToRemove) ==
  /\ pathColors' = RemoveEntries(pathColors, colorToRemove)
  /\ selectedColors' = FilterColors(selectedColors, colorToRemove)
  /\ selectedPathId' = IF Get(pathColors, selectedPathId) = colorToRemove
                       THEN Null ELSE selectedPathId
  /\ calls' = <<>>
  /\ last' = [op |-> "handleRemoveColor", arg |-> colorToRemove]
  /\ UNCHANGED << svgArray, tileId, showBorders, tileRotations, tileVars, applyVars >>

handleRemoveColor(colorToRemove) ==
  /\ pathColors' = RemoveEntries(pathColors, colorToRemove)
  /\ selectedColors' = FilterColors(selectedColors, colorToRemove)
  /\ calls' = <<>>
  /\ last' = [op |-> "handleRemoveColor", arg |-> colorToRemove]
  /\ UNCHANGED << svgArray, tileId, showBorders, selectedPathId, tileRotations,
                  tileVars, applyVars >>

handleRotationChange(index, newRotation, fromDefaults) ==
  /\ CanRotate(tileId)
  /\ calls' = << [fn |-> "onRotate", tileId |-> tileId, index |-> index,
                  newRotation |-> newRotation] >>
  /\ tileRotations' = OnRotate(tileRotations, tileId, Len(svgArray), index,
                               newRotation, fromDefaults)
  /\ last' = [op |-> "handleRotationChange", arg |-> <<index, newRotation>>]
  /\ UNCHANGED << svgArray, tileId, showBorders, selectedColors, selectedPathId,
                  pathColors, tileVars, applyVars >>

\* onClick={() => setShowBorders(!showBorders)}
toggleShowBorders ==
  /\ showBorders' = ~showBorders
  /\ calls' = << [fn |-> "setShowBorders", show |-> ~showBorders] >>
  /\ last' = [op |-> "setShowBorders", arg |-> <<>>]
  /\ UNCHANGED << svgArray, tileId, selectedColors, selectedPathId, pathColors,
                  tileRotations, tileVars, applyVars >>

\* The parent hands the mounted editor another tile: the props change, the
\* useState values stay.
selectTile(t) ==
  /\ t # tileId
  /\ tileId' = t
  /\ svgArray' = SvgArrayOf(t)
  /\ calls' = <<>>
  /\ last' = [op |-> "selectTile", arg |-> <<>>]
  /\ UNCHANGED << showBorders, selectedColors, selectedPathId, pathColors,
                  tileRotations, tileVars, applyVars >>

EditorInit ==
  /\ tileId \in TileIds
  /\ svgArray = SvgArrayOf(tileId)
  /\ showBorders = FALSE
  /\ selectedColors = <<>>
  /\ selectedPathId = Null
  /\ pathColors = [x \in {} |-> Red]
  /\ tileRotations = [x \in {} |-> <<>>]
  /\ calls = <<>>
  /\ last = [op |-> "mount", arg |-> <<>>]

(* ------------------------------------------------------------------ *)
(* applyColorsToSvg                                                    *)
(* ------------------------------------------------------------------ *)

\* A markup string is kept as what a parser reads from it: whether it is
\* well-formed XML, the quote character its attributes are written with, and
\* its path elements (id "" when the attribute is absent, d and fill Null
\* when absent).
PathEl(id, d, fill) == [id |-> id, d |-> d, fill |-> fill]

Markup(wellFormed, quote, paths) ==
  [wellFormed |-> wellFormed, quote |-> quote, paths |-> paths]

\* new DOMParser().parseFromString(svgString, "image/svg+xml"): the document;
\* markup that is not well-formed yields an error document without paths.
ParseFromString(m) == [paths |-> IF m.wellFormed THEN m.paths ELSE <<>>]

\* new XMLSerializer().serializeToString(doc): attributes come out in
\* double quotes whatever the input used.
SerializeToString(doc) == Markup(TRUE, "double", doc.paths)

\* The number of path-data characters that stand in for a missing id.
PrefixLen == 20

\* path.id || path.getAttribute("d")?.substring(0, 20)
ResolvedPathId(path) ==
  IF Truthy(path.id) THEN path.id
  ELSE IF path.d = Null THEN Undefined
  ELSE Substring0(path.d, PrefixLen)

\* The test guarding path.setAttribute("fill", ...).
KeyMatches(colorPathId, pathId) ==
  /\ pathId # Undefined
  /\ (Includes(colorPathId, pathId) \/ Includes(colorPathId, pathId))

\* Object.keys(colors).forEach over one path: the fill after every matching
\* key, in key order, has been written, and whether any was.
RECURSIVE ForEachKey(_, _, _, _)
ForEachKey(cols, k, pathId, acc) ==
  IF k > Len(cols) THEN acc
  ELSE ForEachKey(cols, k + 1, pathId,
         IF KeyMatches(cols[k][1], pathId)
         THEN [fill |-> cols[k][2], modified |-> TRUE]
         ELSE acc)

\* Mutant of ForEachPath: only the first path of the document is visited.
ForEachPathFirstOnly(paths, i, cols, acc) ==
  IF Len(paths) = 0 THEN acc
  ELSE LET r == ForEachKey(cols, 1, ResolvedPathId(paths[1]),
                           [fill |-> paths[1].fill, modified |-> FALSE])
       IN [paths |-> << [paths[1] EXCEPT !.fill = r.fill] >> \o Tail(paths),
           modified |-> r.modified]

\* paths.forEach
RECURSIVE ForEachPath(_, _, _, _)
ForEachPath(paths, i, cols, acc) ==
  IF i > Len(paths) THEN acc
  ELSE LET r == ForEachKey(cols, 1, ResolvedPathId(paths[i]),
                           [fill |-> paths[i].fill, modified |-> FALSE])
       IN ForEachPath(paths, i + 1, cols,
            [paths |-> Append(acc.paths, [paths[i] EXCEPT !.fill = r.fill]),
             modified |-> acc.modified \/ r.modified])

\* Mutant of applyColorsToSvg: the document is serialised whether or not a
\* path was modified.
applyColorsAlwaysSerialize(m, cols) ==
  IF Len(cols) = 0 THEN m
  ELSE LET doc == ParseFromString(m)
           r == ForEachPath(doc.paths, 1, cols, [paths |-> <<>>, modified |-> FALSE])
       IN SerializeToString([paths |-> r.paths])

applyColorsToSvg(m, cols) ==
  IF Len(cols) = 0 THEN m
  ELSE LET doc == ParseFromString(m)
           r == ForEachPath(doc.paths, 1, cols, [paths |-> <<>>, modified |-> FALSE])
       IN IF r.modified THEN SerializeToString([paths |-> r.paths]) ELSE m

\* Path data: 22 characters, 2 characters, and the empty string.
LongD ==
  <<"M","0"," ","0","L","1","0"," ","1","0","L","2","0"," ","2","0","L","3","0"," ","3","0">>
ShortD == <<"M","0">>
EmptyD == <<>>

\* The fragments of tiles "t1" and "t2" as markup (see SvgArrayT1, SvgArrayT2).
MarkupT1a ==
  Markup(TRUE, "single", << PathEl(IdAC, ShortD, colorPalette[1]), PathEl(IdE, ShortD, Null) >>)
MarkupT1b == Markup(TRUE, "double", << PathEl(IdBAC, ShortD, colorPalette[1]) >>)
MarkupT2a == Markup(TRUE, "single", << PathEl(IdE, ShortD, Null) >>)
MarkupT2b == Markup(TRUE, "double", << PathEl(IdE, ShortD, colorPalette[1]) >>)
\* Paths without id: identified by their path data, or by nothing at all.
MarkupNoId ==
  Markup(TRUE, "single", << PathEl(<<>>, LongD, Red), PathEl(<<>>, Null, Red) >>)
MarkupEmptyD == Markup(TRUE, "single", << PathEl(<<>>, EmptyD, Null) >>)
MarkupNoPaths == Markup(TRUE, "single", <<>>)
MarkupMalformed == Markup(FALSE, "single", << PathEl(IdE, ShortD, Null) >>)

Markups ==
  { MarkupT1a, MarkupT1b, MarkupT2a, MarkupT2b, MarkupNoId, MarkupEmptyD,
    MarkupNoPaths, MarkupMalformed }

\* Assignment keys: the editor's path identifiers and a path-data prefix.
ColorKeys == PathIds \cup {Substring0(LongD, PrefixLen)}

\* The most entries an assignment handed to applyColorsToSvg holds.
MaxKeys == 2

ColorMaps ==
  { cm \in UNION { [1..n -> ColorKeys \X Colors] : n \in 0..MaxKeys } :
      \A i, j \in 1..Len(cm) : i # j => cm[i][1] # cm[j][1] }

ApplyInit ==
  /\ svgString \in Markups
  /\ colors \in ColorMaps
  /\ returned = <<>>

\* One call of the helper on the drawn arguments.
ApplyColors ==
  /\ returned = <<>>
  /\ returned' = << applyColorsToSvg(svgString, colors) >>
  /\ last' = [op |-> "applyColorsToSvg", arg |-> <<>>]
  /\ UNCHANGED << editorVars, tileRotations, tileVars, svgString, colors >>

(* ------------------------------------------------------------------ *)
(* TileSelection                                                       *)
(* ------------------------------------------------------------------ *)

Tile(id, collection, svg) == [id |-> id, collection |-> collection, svg |-> svg]

\* The catalog: tiles of one, two, four and five fragments, one of them in
\* another collection.
TilesData ==
  << Tile("t1", "Geometric", << MarkupT1a, MarkupT1b >>),
     Tile("t2", "Geometric", << MarkupT2a, MarkupT2b >>),
     Tile("t3", "Geometric", << MarkupNoId, MarkupNoId, MarkupNoId, MarkupNoId >>),
     Tile("t4", "Floral", << MarkupT1a >>),
     Tile("t5", "Geometric",
          << MarkupT2b, MarkupT2a, MarkupT1b, MarkupT1a, MarkupEmptyD >>),
     Tile("t6", "Geometric", << MarkupMalformed >>),
     Tile("t7", "Geometric", << MarkupT1b, MarkupT1a, MarkupT2b, MarkupT2a >>) >>

\* useState<string>("Geometric"); its setter is never called.
selectedCollection == "Geometric"

tilesPerRow == IF isSmallScreen THEN 2 ELSE IF isMediumScreen THEN 4 ELSE 9

rowsPerPage == 2

filteredTiles == SelectSeq(TilesData, LAMBDA tile : tile.collection = selectedCollection)

\* Math.ceil of the quotient of two positive integers.
Ceil(a, b) == (a + b - 1) \div b

totalPages == Ceil(Len(filteredTiles), tilesPerRow * rowsPerPage)

\* Array.prototype.slice(start, end) for 0 <= start <= end.
Slice(arr, start, end) == SubSeq(arr, start + 1, IF end < Len(arr) THEN end ELSE Len(arr))

getCurrentPageTiles ==
  LET startIdx == currentPage * tilesPerRow * rowsPerPage
  IN Slice(filteredTiles, startIdx, startIdx + tilesPerRow * rowsPerPage)

getRowTiles(rowIndex) ==
  LET startIdx == rowIndex * tilesPerRow
  IN Slice(getCurrentPageTiles, startIdx, startIdx + tilesPerRow)

\* arr[index] on a JS array: undefined past its end or in a hole.
At(arr, index) == IF index \in DOMAIN arr THEN arr[index] ELSE Undefined

\* tileRotations[tile.id] ? tileRotations[tile.id][index] : defaultRotation
\* in the first row (an array is truthy even when empty).
rotation(tile, index) ==
  IF tile.id \in DOMAIN tileRotations
  THEN At(tileRotations[tile.id], index)
  ELSE defaultRotation(index)

\* The same expression in the second row.
rotationSecondRow(tile, index) ==
  IF tile.id \in DOMAIN tileRotations
  THEN At(tileRotations[tile.id], index)
  ELSE defaultRotationSecondRow(index)

\* Whether that expression yields a number: the tile has no entry (the
\* default is used) or its array holds a value at `index`.
RotationDefined(tile, index) ==
  tile.id \notin DOMAIN tileRotations \/ index \in DOMAIN tileRotations[tile.id]

\* What the grid shows for fragment `index` of `tile` in row `rowIndex`.
DisplayedRotation(rowIndex, tile, index) ==
  IF rowIndex = 0 THEN rotation(tile, index) ELSE rotationSecondRow(tile, index)

goToNextPage ==
  /\ currentPage' = (currentPage + 1) % totalPages
  /\ last' = [op |-> "goToNextPage", arg |-> <<>>]
  /\ UNCHANGED << editorVars, tileRotations, isSmallScreen, isMediumScreen, applyVars >>

goToPrevPage ==
  /\ currentPage' = (currentPage - 1 + totalPages) % totalPages
  /\ last' = [op |-> "goToPrevPage", arg |-> <<>>]
  /\ UNCHANGED << editorVars, tileRotations, isSmallScreen, isMediumScreen, applyVars >>

\* Viewport widths on the three sides of the two breakpoints.
Viewports == {500, 900, 1200}

\* The viewport takes width w: both media queries are evaluated again.
resize(w) ==
  /\ isSmallScreen' = (w <= 767)
  /\ isMediumScreen' = (w >= 768 /\ w <= 1023)
  /\ << isSmallScreen', isMediumScreen' >> # << isSmallScreen, isMediumScreen >>
  /\ last' = [op |-> "resize", arg |-> <<>>]
  /\ UNCHANGED << editorVars, tileRotations, currentPage, applyVars >>

\* The parent records a rotation for fragment `index` of tile `t` and hands
\* the new tileRotations down.
rotateTile(t, index, newRotation, fromDefaults) ==
  /\ CanRotate(t.id)
  /\ tileRotations' = OnRotate(tileRotations, t.id, Len(t.svg), index, newRotation,
                               fromDefaults)
  /\ last' = [op |-> "onRotate", arg |-> <<>>]
  /\ UNCHANGED << editorVars, tileVars, applyVars >>

TilesInit ==
  /\ currentPage = 0
  /\ \E w \in Viewports :
       /\ isSmallScreen = (w <= 767)
       /\ isMediumScreen = (w >= 768 /\ w <= 1023)

\* The `pathColors` prop the grid is rendered with: the editor's assignment
\* as an object, its keys in any insertion order.
PathColorsProps ==
  LET n == Cardinality(DOMAIN pathColors)
  IN { [i \in 1..n |-> << o[i], pathColors[o[i]] >>] :
         o \in { f \in [1..n -> DOMAIN pathColors] :
                   \A i, j \in 1..n : i # j => f[i] # f[j] } }

(* ------------------------------------------------------------------ *)
(* Specifications                                                      *)
(* ------------------------------------------------------------------ *)

\* The components at rest: what each specification leaves alone.
TilesIdle == currentPage = 0 /\ isSmallScreen = FALSE /\ isMediumScreen = FALSE
ApplyIdle == svgString = MarkupNoPaths /\ colors = <<>> /\ returned = <<>>

PathSelect == \E pathId \in PathIds : handlePathSelect(pathId)
ColorSelect == \E color \in Colors : handleColorSelect(color)
RemoveColor == \E color \in Colors : handleRemoveColor(color)
TileSelect == \E t \in TileIds : selectTile(t)
RotationChange ==
  \E index \in 0..(Len(svgArray) - 1), newRotation \in RotationAngles,
     fromDefaults \in BOOLEAN :
       handleRotationChange(index, newRotation, fromDefaults)
ShowBorders == toggleShowBorders

\* The ColorEditor's colour state: selection, propagation, removal, and the
\* parent replacing the fragment set.
Init == EditorInit /\ TilesIdle /\ ApplyIdle

Next ==
  \/ PathSelect
  \/ ColorSelect
  \/ RemoveColor
  \/ TileSelect

Spec == Init /\ [][Next]_vars

\* Every ColorEditor handler on one mounted tile, with the first palette
\* colour and "red".
ColorSelectFirst == \E color \in {colorPalette[1], Red} : handleColorSelect(color)
RemoveColorFirst == \E color \in {colorPalette[1], Red} : handleRemoveColor(color)

NextEditor ==
  \/ PathSelect
  \/ ColorSelectFirst
  \/ RemoveColorFirst
  \/ RotationChange
  \/ ShowBorders

SpecEditor == Init /\ [][NextEditor]_vars

\* The TileSelection grid: paging, breakpoints, rotations handed down.
NextPage == goToNextPage
PrevPage == goToPrevPage
Resize == \E w \in Viewports : resize(w)
Rotate ==
  \E i \in 1..Len(TilesData), newRotation \in RotationAngles, fromDefaults \in BOOLEAN :
    \E index \in 0..(Len(TilesData[i].svg) - 1) :
      rotateTile(TilesData[i], index, newRotation, fromDefaults)

InitTiles == EditorInit /\ TilesInit /\ ApplyIdle

NextTiles ==
  \/ NextPage
  \/ PrevPage
  \/ Resize
  \/ Rotate

SpecTiles == InitTiles /\ [][NextTiles]_vars

\* applyColorsToSvg on drawn arguments.
InitApply == EditorInit /\ TilesIdle /\ ApplyInit

NextApply == ApplyColors

SpecApply == InitApply /\ [][NextApply]_vars

(* ------------------------------------------------------------------ *)
(* Properties                                                          *)
(* ------------------------------------------------------------------ *)

\* The token after the last hyphen of an identifier (the whole identifier
\* when it has no hyphen).
LastHyphen(id) ==
  LET H == {i \in 1..Len(id) : id[i] = "-"}
  IN IF H = {} THEN 0 ELSE CHOOSE i \in H : \A j \in H : j <= i

BaseOf(id) == SubSeq(id, LastHyphen(id) + 1, Len(id))

\* The path identifiers occurring in a fragment set.
FragmentIds(arr) ==
  UNION { {arr[f].paths[i].id : i \in 1..Len(arr[f].paths)} : f \in 1..Len(arr) }

\* The positions of the records of colour c in the used-colours collection.
RecordsOf(cols, c) == {i \in 1..Len(cols) : cols[i].color = c}

\* C1: handlePathSelect(P) directly followed by handleColorSelect(C) leaves
\* every path identifier of the active fragment set whose base identifier is
\* that of P mapped to C in pathColors.
C1_Propagation ==
  [][ (last.op = "handlePathSelect" /\ last'.op = "handleColorSelect")
      => \A id \in FragmentIds(svgArray') :
           BaseOf(id) = BaseOf(last.arg)
             => (id \in DOMAIN pathColors' /\ pathColors'[id] = last'.arg) ]_vars

\* C1 witness: on tile t1, "a-c" is selected and "red" was applied; "a-c"
\* and "b-a-c" both hold "red".
C1_Witness ==
  /\ last.op = "handleColorSelect"
  /\ last.arg = Red
  /\ tileId = "t1"
  /\ selectedPathId = IdAC
  /\ {IdAC, IdBAC} \subseteq DOMAIN pathColors
  /\ pathColors[IdAC] = Red
  /\ pathColors[IdBAC] = Red

\* No identifier occurs twice in the fragment set.
DistinctIds(arr) ==
  \A f, g \in 1..Len(arr) : \A i \in 1..Len(arr[f].paths), j \in 1..Len(arr[g].paths) :
    arr[f].paths[i].id = arr[g].paths[j].id => (f = g /\ i = j)

\* C2 (as claimed): after colour C is applied to a selected path of the
\* active fragment set (its identifiers all distinct), selectedColors holds
\* exactly one record of colour C, however many paths share the base
\* identifier.
C2_ExactlyOneRecord ==
  (/\ last.op = "handleColorSelect"
   /\ selectedPathId # Null
   /\ selectedPathId \in FragmentIds(svgArray)
   /\ DistinctIds(svgArray))
  => Cardinality(RecordsOf(selectedColors, last.arg)) = 1

\* C3: handleColorSelect(C) directly after handleColorSelect(C) changes
\* neither pathColors nor selectedColors.
C3_Idempotent ==
  [][ (/\ last.op = "handleColorSelect"
       /\ last'.op = "handleColorSelect"
       /\ last'.arg = last.arg)
      => (pathColors' = pathColors /\ selectedColors' = selectedColors) ]_vars

\* C3 witness: a colour was applied to a selection with related paths and is
\* recorded; applying it again ends in this same state.
C3_Witness ==
  /\ last.op = "handleColorSelect"
  /\ selectedPathId # Null
  /\ calls # <<>>
  /\ RecordsOf(selectedColors, last.arg) # {}
  /\ \A i \in 1..Len(calls) : pathColors[calls[i].pathId] = last.arg

\* C4: handleRemoveColor(C) deletes exactly the pathColors entries equal to
\* C, keeps every other entry's value, drops every record of colour C from
\* selectedColors keeping the others in order, and changes nothing when no
\* entry and no record has colour C.
C4_RemoveExactly ==
  [][ last'.op = "handleRemoveColor"
      => LET c == last'.arg IN
         /\ DOMAIN pathColors' = {k \in DOMAIN pathColors : pathColors[k] # c}
         /\ \A k \in DOMAIN pathColors' : pathColors'[k] = pathColors[k]
         /\ RecordsOf(selectedColors', c) = {}
         /\ Len(selectedColors') = Len(selectedColors) - Cardinality(RecordsOf(selectedColors, c))
         /\ \A i \in 1..Len(selectedColors) :
              selectedColors[i].color # c
                => selectedColors'[i - Cardinality({j \in RecordsOf(selectedColors, c) : j < i})]
                     = selectedColors[i]
         /\ ((\A k \in DOMAIN pathColors : pathColors[k] # c)
               /\ RecordsOf(selectedColors, c) = {})
              => (pathColors' = pathColors /\ selectedColors' = selectedColors) ]_vars

\* C4 witness: a removal deleted the selected path's entry and its colour's
\* records while entries and records of another colour remain.
C4_Witness ==
  /\ last.op = "handleRemoveColor"
  /\ selectedPathId # Null
  /\ selectedPathId \notin DOMAIN pathColors
  /\ DOMAIN pathColors # {}
  /\ selectedColors # <<>>
  /\ \A k \in DOMAIN pathColors : pathColors[k] # last.arg

\* The table of default rotations by fragment position.
RotationTable(i) ==
  IF i = 0 THEN 0 ELSE IF i = 1 THEN 90 ELSE IF i = 2 THEN 270
  ELSE IF i = 3 THEN 180 ELSE 0

\* The tiles shown in a row of the current page.
RowTiles(rowIndex) == {getRowTiles(rowIndex)[k] : k \in 1..Len(getRowTiles(rowIndex))}

\* C5: a displayed tile that has no rotation override shows fragment i at
\* 0, 90, 270, 180 degrees for i = 0, 1, 2, 3 and at 0 for any other i,
\* whatever the fragment holds, in the first and in the second row.
C5_DefaultRotation ==
  \A rowIndex \in {0, 1} : \A tile \in RowTiles(rowIndex) :
    tile.id \notin DOMAIN tileRotations
      => \A i \in 0..(Len(tile.svg) - 1) :
           DisplayedRotation(rowIndex, tile, i) = RotationTable(i)

\* C5 witness: the second row shows a five-fragment tile without override
\* while another tile has one.
C5_Witness ==
  /\ DOMAIN tileRotations # {}
  /\ \E tile \in RowTiles(1) :
       /\ Len(tile.svg) = 5
       /\ tile.id \notin DOMAIN tileRotations
       /\ DisplayedRotation(1, tile, 4) = 0
       /\ DisplayedRotation(1, tile, 2) = 270

\* The record handed to onColorSelect for a path identifier and a colour.
RecordFor(id, c) ==
  [id |-> id \o <<"-">> \o c, color |-> c, name |-> <<"C","o","l","o","r"," ">> \o c]

\* C6 (as claimed): one handleColorSelect(C) on a selection invokes
\* onColorSelect exactly once for each distinct path identifier of the
\* fragment set sharing the selected base identifier, with that identifier
\* and the record {id-C, C, "Color C"}.
C6_OncePerIdentifier ==
  (last.op = "handleColorSelect" /\ selectedPathId # Null)
  => /\ {calls[i].pathId : i \in 1..Len(calls)}
          = {id \in FragmentIds(svgArray) : BaseOf(id) = BaseOf(selectedPathId)}
     /\ \A i, j \in 1..Len(calls) : calls[i].pathId = calls[j].pathId => i = j
     /\ \A i \in 1..Len(calls) :
          /\ calls[i].fn = "onColorSelect"
          /\ calls[i].color = RecordFor(calls[i].pathId, last.arg)

\* C7: handleColorSelect(C) with no path selected changes neither
\* pathColors, selectedColors nor the selection and makes no callback.
C7_NoSelectionNoOp ==
  [][ (last'.op = "handleColorSelect" /\ selectedPathId = Null)
      => /\ pathColors' = pathColors
         /\ selectedColors' = selectedColors
         /\ selectedPathId' = Null
         /\ calls' = <<>> ]_vars

\* C7 witness: a colour was clicked on an editor that has fragments to
\* colour and no selection.
C7_Witness ==
  /\ last.op = "handleColorSelect"
  /\ selectedPathId = Null
  /\ FragmentIds(svgArray) # {}
  /\ DOMAIN pathColors = {}
  /\ calls = <<>>

\* The authored fill of the first path with identifier id, in fragment
\* order; "red" when there is no such path or it has no fill.
FirstFill(arr, id) ==
  LET occ == UNION { {<<f, i>> : i \in {j \in 1..Len(arr[f].paths) : arr[f].paths[j].id = id}} :
                     f \in 1..Len(arr) }
  IN IF occ = {} THEN Red
     ELSE LET first == CHOOSE o \in occ :
                         \A q \in occ : o[1] < q[1] \/ (o[1] = q[1] /\ o[2] <= q[2])
              fill == arr[first[1]].paths[first[2]].fill
          IN IF fill = Undefined THEN Red ELSE fill

\* C8: handlePathSelect(P) selects P; an identifier without entry gets the
\* authored fill of its path, or "red"; an identifier with an entry keeps
\* its colour.
C8_PathSelect ==
  [][ last'.op = "handlePathSelect"
      => LET p == last'.arg IN
         /\ selectedPathId' = p
         /\ p \in DOMAIN pathColors'
         /\ pathColors'[p] = IF p \in DOMAIN pathColors THEN pathColors[p]
                             ELSE FirstFill(svgArray, p) ]_vars

\* C8 witness: "e" is selected after another path was recoloured; "e", whose
\* first occurrence has no fill, holds "red" and the recoloured entry stays.
C8_Witness ==
  /\ last.op = "handlePathSelect"
  /\ last.arg = IdE
  /\ selectedPathId = IdE
  /\ IdE \in DOMAIN pathColors
  /\ pathColors[IdE] = Red
  /\ \E k \in DOMAIN pathColors : pathColors[k] # Red
  /\ selectedColors # <<>>

\* Some path of the parsed markup is matched by some key of the assignment.
SomePathMatches(m, cols) ==
  \E i \in 1..Len(ParseFromString(m).paths), k \in 1..Len(cols) :
    KeyMatches(cols[k][1], ResolvedPathId(ParseFromString(m).paths[i]))

\* C9: applyColorsToSvg returns the very markup it was given when no path
\* matches a key (an empty assignment included), and a serialisation of the
\* document when a path matches.
C9_UnchangedWithoutMatch ==
  returned # <<>>
  => /\ ~SomePathMatches(svgString, colors) => returned[1] = svgString
     /\ SomePathMatches(svgString, colors)
          => /\ returned[1].wellFormed
             /\ returned[1].quote = "double"
             /\ Len(returned[1].paths) = Len(svgString.paths)

\* C9 witness: single-quoted markup with paths, a non-empty assignment none
\* of whose keys matches, and the input returned as it was.
C9_Witness ==
  /\ returned # <<>>
  /\ colors # <<>>
  /\ svgString.wellFormed
  /\ svgString.paths # <<>>
  /\ svgString.quote = "single"
  /\ ~SomePathMatches(svgString, colors)
  /\ returned[1] = svgString

\* C10: an entry of pathColors changes only by handleColorSelect on a
\* selection sharing its base identifier (it then holds the applied colour)
\* or by handleRemoveColor of its colour (it is then gone); handlePathSelect,
\* handleRotationChange and the show-borders toggle change no existing entry.
C10_EntriesKept ==
  [][ \A id \in DOMAIN pathColors :
        (id \notin DOMAIN pathColors' \/ pathColors'[id] # pathColors[id])
          => \/ /\ last'.op = "handleColorSelect"
                /\ selectedPathId # Null
                /\ BaseOf(id) = BaseOf(selectedPathId)
                /\ id \in DOMAIN pathColors'
                /\ pathColors'[id] = last'.arg
             \/ /\ last'.op = "handleRemoveColor"
                /\ last'.arg = pathColors[id]
                /\ id \notin DOMAIN pathColors' ]_vars

\* C10 witness: on tile t1 "e", seeded "red", was recoloured with the
\* palette colour, a rotation was requested, and "e" was selected again: it
\* still holds the palette colour.
C10_Witness ==
  /\ last.op = "handlePathSelect"
  /\ last.arg = IdE
  /\ tileId = "t1"
  /\ IdE \in DOMAIN pathColors
  /\ pathColors[IdE] = colorPalette[1]
  /\ DOMAIN tileRotations # {}
  /\ showBorders

\* An override has been supplied for fragment i of tile t.
Overridden(t, i) == t \in DOMAIN tileRotations /\ i \in DOMAIN tileRotations[t]

\* C11 (as claimed): every fragment of a displayed tile is shown at a defined
\* number of degrees, and a fragment no override covers is shown at its
\* default table value, also when the tile has overrides for other indices.
C11_DefaultUntilOverridden ==
  \A rowIndex \in {0, 1} : \A tile \in RowTiles(rowIndex) :
    \A i \in 0..(Len(tile.svg) - 1) :
      /\ RotationDefined(tile, i)
      /\ ~Overridden(tile.id, i) => DisplayedRotation(rowIndex, tile, i) = RotationTable(i)

\* A handler step that ends with no path selected / with a path selected.
Deselect == NextEditor /\ selectedPathId' = Null
SelectSome == NextEditor /\ selectedPathId' # Null

\* C12 (as claimed): the selection is either "no path selected" or "path
\* selected", starts as "no path selected", and each of the two states can
\* be left for the other by some handler.
C12_BothDirections ==
  /\ selectedPathId = Null \/ selectedPathId \in PathIds
  /\ last.op = "mount" => selectedPathId = Null
  /\ selectedPathId = Null => ENABLED SelectSome
  /\ selectedPathId # Null => ENABLED Deselect

\* C12 (amended): the selection starts as "no path selected", every
\* handlePathSelect ends in "path selected", and no handler leaves "path
\* selected" for "no path selected".
C12_OneDirection ==
  [][ /\ last.op = "mount" => selectedPathId = Null
      /\ selectedPathId' = Null \/ selectedPathId' \in PathIds
      /\ last'.op = "handlePathSelect" => selectedPathId' # Null
      /\ selectedPathId # Null => selectedPathId' # Null ]_vars

\* C12 witness: every colour was removed, the selected path has no entry
\* any more, and the path is still selected.
C12_Witness ==
  /\ last.op = "handleRemoveColor"
  /\ selectedPathId \in PathIds
  /\ DOMAIN pathColors = {}
  /\ selectedColors = <<>>

\* The keys (as positions in the assignment) that contain the resolved
\* identifier or are contained in it.
KeysEitherWay(cols, pathId) ==
  { k \in 1..Len(cols) :
      /\ pathId # Undefined
      /\ (Includes(cols[k][1], pathId) \/ Includes(pathId, cols[k][1])) }

\* C13 (as claimed): in the markup applyColorsToSvg returns, a path whose
\* resolved identifier contains a key or is contained in a key carries the
\* colour of such a key, and every other path (one with no resolvable
\* identifier included) keeps its fill.
C13_EitherDirection ==
  (returned # <<>> /\ svgString.wellFormed)
  => /\ Len(returned[1].paths) = Len(svgString.paths)
     /\ \A i \in 1..Len(svgString.paths) :
          LET M == KeysEitherWay(colors, ResolvedPathId(svgString.paths[i]))
          IN IF M = {}
             THEN returned[1].paths[i].fill = svgString.paths[i].fill
             ELSE returned[1].paths[i].fill \in { colors[k][2] : k \in M }

\* The markup of every fragment of every tile on the displayed page.
ShownMarkups ==
  UNION { { tile.svg[f] : f \in 1..Len(tile.svg) } :
            tile \in RowTiles(0) \cup RowTiles(1) }

\* Each fragment of each displayed tile rendered through applyColorsToSvg
\* with the one assignment: a path some key matches comes out with the
\* colour of a matching key, whichever tile it belongs to.
GridShowsAssignment ==
  LET shown == ShownMarkups
      props == PathColorsProps
  IN \A m \in shown : \A cols \in props :
       LET paths == ParseFromString(m).paths
           out == applyColorsToSvg(m, cols)
       IN \A i \in 1..Len(paths) :
            LET pid == ResolvedPathId(paths[i])
                M == { k \in 1..Len(cols) : KeyMatches(cols[k][1], pid) }
            IN M # {} => /\ Len(out.paths) = Len(paths)
                         /\ out.paths[i].fill \in { cols[k][2] : k \in M }

\* C14: the parent replacing the fragment set leaves pathColors,
\* selectedColors and selectedPathId as they were, and once it has done so
\* the assignment made so far colours every displayed tile that has a path
\* a key matches, the tiles that were not active when it was made included.
C14_NoTileIsolation ==
  /\ [][ last'.op = "selectTile"
         => /\ tileId' # tileId
            /\ svgArray' = SvgArrayOf(tileId')
            /\ pathColors' = pathColors
            /\ selectedColors' = selectedColors
            /\ selectedPathId' = selectedPathId ]_vars
  /\ [](last.op = "selectTile" => GridShowsAssignment)

\* C14 witness: tile "t2" has just become active, "a-c" (an identifier of
\* tile "t1" only) is still selected and assigned "red", and a fragment of
\* the displayed tile "t7" with that path is rendered in "red".
C14_Witness ==
  /\ last.op = "selectTile"
  /\ tileId = "t2"
  /\ selectedPathId = IdAC
  /\ IdAC \in DOMAIN pathColors
  /\ pathColors[IdAC] = Red
  /\ SomeColor(selectedColors, Red)
  /\ \E tile \in RowTiles(0) : \E cols \in PathColorsProps :
       /\ tile.id = "t7"
       /\ tile.svg[2] = MarkupT1a
       /\ applyColorsToSvg(tile.svg[2], cols).paths[1].fill = Red

\* C15 (as claimed): whatever pager clicks and breakpoint changes came
\* before, currentPage is a page of the collection at the current
\* tilesPerRow: 0 <= currentPage < totalPages, with totalPages at least 1.
C15_PageInRange ==
  /\ totalPages = Ceil(Len(filteredTiles), tilesPerRow * 2)
  /\ totalPages >= 1
  /\ currentPage >= 0
  /\ currentPage < totalPages

====
